---- MODULE Spec2Model ----
(***************************************************************************)
(* Textify: the adaptive summarization engine (app/service.py,             *)
(* generate_bert_summary), the final clean-up of its output, the report    *)
(* builders (generate_pdf_report, generate_docx_report), the file upload   *)
(* request (app/api.py, PDF_result / process_summary_request /             *)
(* process_file), the URL request (RAW_result / summarize_url) and the     *)
(* download request (download_file).                                       *)
(*                                                                         *)
(* Texts are modelled at the level the code inspects them:                 *)
(*   - the engine's input by its word count, its provenance markers and    *)
(*     the presence of the aggregator name; words are their positions, so  *)
(*     a chunk words[i:i+400] is the half-open range [lo, hi);             *)
(*   - a generated text by its sentences, each with the keyword lists it   *)
(*     matches and whether it starts with an upper-case letter;            *)
(*   - the text the line filter and the report builders work on by a       *)
(*     sequence of atoms (small character groups).                         *)
(***************************************************************************)
EXTENDS Integers, Sequences, FiniteSets, TLC

VARIABLES
    \* ---- generate_bert_summary -------------------------------------
    pc,               \* position in generate_bert_summary
    cleaned_text,     \* its argument
    summarizer,       \* the global model: the outputs it may generate
    article_count,    \* density score (0 while not computed)
    tier,             \* the adaptive parameters selected from article_count
    chunks,           \* the chunk list, each chunk a word range
    i,                \* index of the next chunk of chunks[:3] to summarize
    chunk_summaries,  \* summaries of the chunks whose invocation succeeded
    calls,            \* every summarizer invocation made so far, in order
    result,           \* what the function returned
    output,           \* summary_text of the invocation the summary is made from
    \* ---- the final clean-up, on the characters of a summary ---------
    summary,          \* the text handed to the final clean-up
    cleaned,          \* its successive outputs, each pass fed the last
    \* ---- generate_pdf_report / generate_docx_report -----------------
    summary_text,     \* the summary handed to the report builder
    report,           \* the report built from it
    \* ---- PDF_result: one file upload ---------------------------------
    rq,               \* position in the request
    uploaded_file,    \* request.files.get('name')
    file_content,     \* what process_file returned
    wordcloud,        \* the word-cloud image on disk
    steps,            \* the stages the request has run, in order
    response,         \* what the route answered
    \* ---- RAW_result: one URL submission ------------------------------
    url,              \* request.form.get('name') and the page behind it
    outcome,          \* what summarize_url returned
    \* ---- the server: requests sharing the artifact files -------------
    cwd,              \* working directory of the process
    threaded,         \* requests are served concurrently (run.py)
    clock,            \* datetime.now(), in seconds
    runs,             \* pipeline runs started so far
    disk,             \* the artifact files
    reqs,             \* the requests
    \* ---- the density score of two texts ------------------------------
    generation_texts, \* two texts handed to generate_bert_summary
    density,          \* their density scores
    \* ---- the topic buckets --------------------------------------------
    sentences,        \* the usable sentences of a fused summary
    buckets,          \* the sentence list of each bucket
    \* ---- download_file: one download request -------------------------
    format_type,      \* the format named in the route
    form,             \* request.form
    built,            \* the report builder calls made, in order
    answer            \* what the route answered

engineVars == <<pc, cleaned_text, summarizer, article_count, tier, chunks, i,
                chunk_summaries, calls, result,
               output>>

filterVars == <<summary, cleaned>>

reportVars == <<summary_text, report>>

uploadVars == <<rq, uploaded_file, file_content, wordcloud, steps, response>>

urlVars == <<url, outcome>>

serverVars == <<cwd, threaded, clock, runs, disk, reqs>>

densityVars == <<generation_texts, density>>

bucketVars == <<sentences, buckets>>

downloadVars == <<format_type, form, built, answer>>

vars == <<engineVars, filterVars, reportVars, uploadVars, urlVars, serverVars,
          densityVars, bucketVars, downloadVars>>

\* ---------------------------------------------------------------------
\* Bounds of the model.
\* ---------------------------------------------------------------------
MaxWords == 1102       \* word counts 0..MaxWords are explored
MaxSentences == 4      \* a generated text has at most this many sentences
MaxScore == 20         \* density scores 0..MaxScore are compared
MaxAtoms == 5          \* a text handed to the final clean-up has at most this many atoms
MaxPieces == 4         \* a summary handed to a report builder has at most this many atoms
MaxRequests == 3       \* requests served by the server
MaxClock == 1          \* seconds that pass while they are served
MaxSorted == 2         \* sentences sorted into the topic buckets

\* ---------------------------------------------------------------------
\* Constants of the program.
\* ---------------------------------------------------------------------
MinWords == 30         \* service.py:89
DirectLimit == 800     \* service.py:94
chunk_size == 400      \* service.py:136
overlap == 50          \* service.py:137
ChunkCap == 3          \* service.py:147  chunks[:3]
FusionMin == 80        \* service.py:161
HighTier == 8          \* service.py:115
MediumTier == 4        \* service.py:121
AggregatorFloor == 15  \* service.py:109
BulletCap == 3         \* service.py:226
OtherBulletCap == 2    \* service.py:250
PdfLineLimit == 80     \* service.py:516
MinFileSize == 10      \* api.py:205
MinDocChars == 50      \* api.py:330
FallbackChars == 100   \* service.py:441

Min(a, b) == IF a < b THEN a ELSE b
Max(a, b) == IF a > b THEN a ELSE b

RECURSIVE SumSeq(_)
SumSeq(s) == IF s = <<>> THEN 0 ELSE Head(s) + SumSeq(Tail(s))

\* s[:n]
Take(s, n) == SubSeq(s, 1, Min(n, Len(s)))
\* s[n:]
Drop(s, n) == SubSeq(s, Min(n, Len(s)) + 1, Len(s))

\* =====================================================================
\* generate_bert_summary
\* =====================================================================

\* ---- sentences of a generated text ----------------------------------
\* kw: the keyword lists (lines 195-198) with a keyword in the sentence;
\* "core" stands for one of 'cricket', 'cup', 'match' (line 214), which are
\* sports keywords themselves.  cap: the sentence starts with an upper-case
\* letter; a sentence with cap = FALSE holds lower-case words only.
Topics == {"sports", "international", "crime", "domestic"}

Sent(kw, cap) == [kw |-> kw, cap |-> cap]

SentencePool ==
    {Sent({"sports", "core"}, TRUE), Sent({"international"}, TRUE),
     Sent({"crime"}, TRUE), Sent({"domestic"}, TRUE), Sent({}, TRUE),
     Sent({}, FALSE)}

\* every text of at most n sentences
Texts(n) == UNION {[1..k -> SentencePool] : k \in 0..n}

\* ---- lines of a summary ----------------------------------------------
\* A summary is a sequence of lines (the pieces between '<br>' or '\n').
Label(b)     == [kind |-> "label", bucket |-> b, body |-> <<>>, src |-> 0]
Bullet(b, s) == [kind |-> "bullet", bucket |-> b, body |-> <<s>>, src |-> 0]
TextLine(ss) == [kind |-> "text", bucket |-> "", body |-> ss, src |-> 0]
ChunkLine(c) == [kind |-> "chunk", bucket |-> "", body |-> <<>>, src |-> c]
Blank        == [kind |-> "blank", bucket |-> "", body |-> <<>>, src |-> 0]

\* ---- outcomes --------------------------------------------------------
NoResult == [status |-> "none", lines |-> <<>>]
NoContent == [status |-> "NoContent", lines |-> <<>>]   \* line 85
TooShortResult == [status |-> "TooShort", lines |-> <<>>]     \* line 90
ErrorResult == [status |-> "Error", lines |-> <<>>]     \* line 347
Summary(ls) == [status |-> "Summary", lines |-> ls]     \* line 343

\* ---- lines 84-94: which path the input takes -------------------------
IsEmptyInput(text) == text.nwords = 0

\* variant: the threshold mistyped
IsTooShortLow(text) == text.nwords < 20

IsTooShort(text) == text.nwords < MinWords

\* variant: >= for >
IsLongInclusive(text) == text.nwords >= DirectLimit

IsLong(text) == text.nwords > DirectLimit

\* ---- lines 96-112: density score -------------------------------------
\* Line 87 has collapsed every whitespace run, line breaks included, into
\* one space, so the text reaching lines 100-101 is a single line: for a
\* text of more than 800 words both lists hold exactly that one line.
Paragraphs(text) == 1

LinesWithContent(text) == 1

Max3(a, b, c) == Max(a, Max(b, c))

ArticleCount(text) ==
    IF text.indiatoday \/ LinesWithContent(text) > 10
    THEN Max(Max3(text.article_markers, Paragraphs(text),
                  LinesWithContent(text) \div 2), AggregatorFloor)
    ELSE Max3(text.article_markers, Paragraphs(text) \div 3, 1)

\* ---- lines 114-132: adaptive parameters -------------------------------
NoTier == [summary_style |-> "none", max_tokens_per_chunk |-> 0,
           min_length_per_chunk |-> 0, final_max_tokens |-> 0,
           final_min_length |-> 0]

\* variant: the two tests of the if/elif chain in the other order
TierParamsSwapped(count) ==
    IF count >= MediumTier
    THEN [summary_style |-> "structured",
          max_tokens_per_chunk |-> 120, min_length_per_chunk |-> 50,
          final_max_tokens |-> 350, final_min_length |-> 200]
    ELSE IF count >= HighTier
    THEN [summary_style |-> "detailed by topics",
          max_tokens_per_chunk |-> 150, min_length_per_chunk |-> 60,
          final_max_tokens |-> 500, final_min_length |-> 300]
    ELSE [summary_style |-> "concise",
          max_tokens_per_chunk |-> 80, min_length_per_chunk |-> 30,
          final_max_tokens |-> 200, final_min_length |-> 80]

TierParams(count) ==
    IF count >= HighTier
    THEN [summary_style |-> "detailed by topics",
          max_tokens_per_chunk |-> 150, min_length_per_chunk |-> 60,
          final_max_tokens |-> 500, final_min_length |-> 300]
    ELSE IF count >= MediumTier
    THEN [summary_style |-> "structured",
          max_tokens_per_chunk |-> 120, min_length_per_chunk |-> 50,
          final_max_tokens |-> 350, final_min_length |-> 200]
    ELSE [summary_style |-> "concise",
          max_tokens_per_chunk |-> 80, min_length_per_chunk |-> 30,
          final_max_tokens |-> 200, final_min_length |-> 80]

\* ---- lines 134-143: chunking ------------------------------------------
\* variant: the overlap forgotten in the step
ChunkStepNoOverlap == chunk_size

ChunkStep == chunk_size - overlap

\* variant: the loop stops one chunk early
LastChunkEarly(at, n) == at + chunk_size >= n - chunk_size

\* line 142: the loop stops after the chunk that reaches the last word
LastChunk(at, n) == at + chunk_size >= n

RECURSIVE ChunksFrom(_, _)
ChunksFrom(at, n) ==
    IF at >= n THEN <<>>
    ELSE LET chunk == [lo |-> at, hi |-> Min(at + chunk_size, n)]
         IN  IF LastChunk(at, n) THEN <<chunk>>
             ELSE <<chunk>> \o ChunksFrom(at + ChunkStep, n)

BuildChunks(text) == ChunksFrom(0, text.nwords)


\* ---- lines 145-156: one chunk of chunks[:3] ----------------------------
\* variant: the slice [:3] left out
SubmittedAll(cs) == cs

Submitted(cs) == Take(cs, ChunkCap)

ChunkSummary(idx, n) == [chunk |-> idx, nwords |-> n]

\* variant: break for continue
AfterChunkFailureBreak(idx) == ChunkCap + 1

\* line 156: a failed chunk is skipped and the loop goes on
AfterChunkFailure(idx) == idx + 1

\* ---- lines 158-161: the combined text ---------------------------------
CombinedWords(cs) == SumSeq([k \in 1..Len(cs) |-> cs[k].nwords])

\* variant: >= for >
NeedsFusionInclusive(cs) == CombinedWords(cs) >= FusionMin

NeedsFusion(cs) == CombinedWords(cs) > FusionMin

ChunkIds(cs) == [k \in 1..Len(cs) |-> cs[k].chunk]

\* ---- line 177: re.sub(r'^[^A-Z]*', '', summary) -----------------------
RECURSIVE StripToUpper(_)
StripToUpper(ss) ==
    IF ss = <<>> THEN <<>>
    ELSE IF Head(ss).cap THEN ss ELSE StripToUpper(Tail(ss))

\* ---- lines 181-256: topic restructuring (high tier) --------------------
\* variant: the sports test ahead of the crime test
BucketOfSportsFirst(s) ==
    IF "sports" \in s.kw /\ "core" \in s.kw THEN "sports"
    ELSE IF "crime" \in s.kw THEN "crime"
    ELSE IF "international" \in s.kw THEN "international"
    ELSE IF "domestic" \in s.kw THEN "domestic"
    ELSE "other"

\* lines 212-221: the if/elif chain
BucketOf(s) ==
    IF "crime" \in s.kw THEN "crime"
    ELSE IF "sports" \in s.kw /\ "core" \in s.kw THEN "sports"
    ELSE IF "international" \in s.kw THEN "international"
    ELSE IF "domestic" \in s.kw THEN "domestic"
    ELSE "other"

\* lines 224-251: the order in which the sections are written
BucketOrder == <<"sports", "international", "crime", "domestic", "other">>

InBucket(ss, b) == SelectSeq(ss, LAMBDA s : BucketOf(s) = b)

\* variant: the slice [:3] left out
BulletsShownAll(b) == Len(BucketOrder) * BulletCap

BulletsShown(b) == IF b = "other" THEN OtherBulletCap ELSE BulletCap

Section(ss, b) ==
    LET mine == InBucket(ss, b)
        shown == Take(mine, BulletsShown(b))
    IN  IF mine = <<>> THEN <<>>
        ELSE <<Label(b)>> \o [k \in 1..Len(shown) |-> Bullet(b, shown[k])]
             \o (IF b = "other" THEN <<>> ELSE <<Blank>>)

RECURSIVE Sections(_, _)
Sections(ss, order) ==
    IF order = <<>> THEN <<>>
    ELSE Section(ss, Head(order)) \o Sections(ss, Tail(order))

\* variant: the test of line 191 left out
RestructureAlways(ss) == Sections(ss, BucketOrder) \o <<Blank>>

\* line 191: restructure only with at least 3 usable sentences
Restructure(ss) ==
    IF Len(ss) >= 3 THEN Sections(ss, BucketOrder) \o <<Blank>>
    ELSE <<TextLine(ss)>>

\* ---- lines 258-292: paragraph restructuring (medium, low tier) ---------
RECURSIVE Groups(_, _)
Groups(ss, per) ==
    IF ss = <<>> THEN <<>>
    ELSE IF Len(ss) <= per THEN <<TextLine(ss)>>
    ELSE <<TextLine(Take(ss, per)), Blank, Blank>> \o Groups(Drop(ss, per), per)

MediumParagraphs(ss) ==
    IF Len(ss) >= 2 THEN Groups(ss, Max(1, Len(ss) \div 3))
    ELSE <<TextLine(ss)>>

LowParagraphs(ss) ==
    IF Len(ss) >= 2
    THEN <<TextLine(Take(ss, Len(ss) \div 2)), Blank, Blank,
           TextLine(Drop(ss, Len(ss) \div 2))>>
    ELSE <<TextLine(ss)>>

\* lines 167-292: what the fusion output becomes
Formatted(out, count) ==
    LET ss == StripToUpper(out)
    IN  IF count >= HighTier THEN Restructure(ss)
        ELSE IF count >= MediumTier THEN MediumParagraphs(ss)
        ELSE LowParagraphs(ss)

\* ---- lines 314-341: the final line filter ------------------------------
\* A line is kept when it has more than 3 letters, is not made of
\* non-letters only and is not made of lower-case words only (line 331).
KeepLine(line) ==
    \/ line.kind \in {"label", "bullet", "chunk"}
    \/ line.kind = "text" /\ \E k \in 1..Len(line.body) : line.body[k].cap

FinalCleanup(ls) == SelectSeq(ls, KeepLine)

\* line 295 / 297: the chunk summaries themselves, one after the other
ChunkLines(cs) ==
    [k \in 1..(2 * Len(cs) - 1) |->
        IF k % 2 = 1 THEN ChunkLine(cs[(k + 1) \div 2].chunk) ELSE Blank]

\* line 305: every sentence of the fallback output on a line of its own
SentenceLines(out) ==
    [k \in 1..(2 * Len(out) - 1) |->
        IF k % 2 = 1 THEN TextLine(<<out[(k + 1) \div 2]>>) ELSE Blank]

\* variant: the fusion failure surfaced as the error outcome
FusionFailedFatal(cs) == ErrorResult

\* lines 294-295: the fusion invocation raised
FusionFailed(cs) == Summary(FinalCleanup(ChunkLines(cs)))

\* lines 345-347: an exception outside the inner handlers
Uncaught == ErrorResult

\* =====================================================================
\* The engine as a state machine
\* =====================================================================
Call(kind, arg, ok, maxTokens, minLength) ==
    [kind |-> kind, arg |-> arg, ok |-> ok,
     max_new_tokens |-> maxTokens, min_length |-> minLength]

Return(res) ==
    /\ pc' = "done"
    /\ result' = res

\* The inputs explored.  Every word count up to MaxWords, with a model
\* that answers with one text and chunk summaries of 40 or 45 words; and
\* inputs around the thresholds, with every text of at most MaxSentences
\* sentences as the model's answer.
PlainText == <<Sent({}, TRUE)>>

\* the texts a model may answer with
Generated(model) ==
    IF model.texts = "one" THEN {PlainText} ELSE Texts(MaxSentences)

SizeInputs ==
    {[nwords |-> n, article_markers |-> 0, indiatoday |-> FALSE] :
        n \in 0..MaxWords}

RichInputs ==
    {[nwords |-> n, article_markers |-> m, indiatoday |-> FALSE] :
        n \in {500, 801}, m \in {0, 4, 10}}
    \cup {[nwords |-> 801, article_markers |-> 0, indiatoday |-> TRUE]}

EngineInit ==
    /\ \/ /\ cleaned_text \in SizeInputs
          /\ summarizer = [lens |-> {40, 45}, texts |-> "one"]
       \/ /\ cleaned_text \in RichInputs
          /\ summarizer = [lens |-> {45}, texts |-> "all"]
    /\ pc = "start"
    /\ article_count = 0
    /\ tier = NoTier
    /\ chunks = <<>>
    /\ i = 0
    /\ chunk_summaries = <<>>
    /\ calls = <<>>
    /\ result = NoResult
    /\ output = <<>>

\* lines 84-85
ReturnNoContent ==
    /\ pc = "start"
    /\ IsEmptyInput(cleaned_text)
    /\ Return(NoContent)
    /\ UNCHANGED <<cleaned_text, summarizer, article_count, tier, chunks, i,
                   chunk_summaries, calls, output>>

\* lines 89-90
ReturnTooShort ==
    /\ pc = "start"
    /\ ~IsEmptyInput(cleaned_text)
    /\ IsTooShort(cleaned_text)
    /\ Return(TooShortResult)
    /\ UNCHANGED <<cleaned_text, summarizer, article_count, tier, chunks, i,
                   chunk_summaries, calls, output>>

\* lines 306-343: the direct path, its invocation answered
Direct ==
    /\ pc = "start"
    /\ ~IsEmptyInput(cleaned_text)
    /\ ~IsTooShort(cleaned_text)
    /\ ~IsLong(cleaned_text)
    /\ \E out \in Generated(summarizer) :
          /\ calls' = Append(calls, Call("direct", <<>>, TRUE, 120, 40))
          /\ output' = out
          /\ Return(Summary(FinalCleanup(<<TextLine(out)>>)))
    /\ UNCHANGED <<cleaned_text, summarizer, article_count, tier, chunks, i,
                   chunk_summaries>>

\* lines 311, 345-347: the direct path, its invocation raising
DirectFailed ==
    /\ pc = "start"
    /\ ~IsEmptyInput(cleaned_text)
    /\ ~IsTooShort(cleaned_text)
    /\ ~IsLong(cleaned_text)
    /\ calls' = Append(calls, Call("direct", <<>>, FALSE, 120, 40))
    /\ Return(Uncaught)
    /\ UNCHANGED <<cleaned_text, summarizer, article_count, tier, chunks, i,
                   chunk_summaries, output>>

\* lines 94-143: density score, parameters and chunk list
EnterChunked ==
    /\ pc = "start"
    /\ ~IsEmptyInput(cleaned_text)
    /\ ~IsTooShort(cleaned_text)
    /\ IsLong(cleaned_text)
    /\ article_count' = ArticleCount(cleaned_text)
    /\ tier' = TierParams(ArticleCount(cleaned_text))
    /\ chunks' = BuildChunks(cleaned_text)
    /\ i' = 1
    /\ pc' = "chunk"
    /\ UNCHANGED <<cleaned_text, summarizer, chunk_summaries, calls, result,
                   output>>

NextChunk(idx) ==
    /\ i' = idx
    /\ pc' = IF idx > Len(Submitted(chunks)) THEN "combine" ELSE "chunk"

\* lines 147-154: the invocation for chunk i answered
ChunkSummarized ==
    /\ pc = "chunk"
    /\ i <= Len(Submitted(chunks))
    /\ \E n \in summarizer.lens :
          chunk_summaries' = Append(chunk_summaries, ChunkSummary(i, n))
    /\ calls' = Append(calls, Call("chunk", <<i>>, TRUE,
                                   tier.max_tokens_per_chunk,
                                   tier.min_length_per_chunk))
    /\ NextChunk(i + 1)
    /\ UNCHANGED <<cleaned_text, summarizer, article_count, tier, chunks,
                   result, output>>

\* lines 155-156: the invocation for chunk i raised
ChunkFailed ==
    /\ pc = "chunk"
    /\ i <= Len(Submitted(chunks))
    /\ calls' = Append(calls, Call("chunk", <<i>>, FALSE,
                                   tier.max_tokens_per_chunk,
                                   tier.min_length_per_chunk))
    /\ NextChunk(AfterChunkFailure(i))
    /\ UNCHANGED <<cleaned_text, summarizer, article_count, tier, chunks,
                   chunk_summaries, result, output>>

\* lines 158-293, 314-343: the fusion pass answered
Fuse ==
    /\ pc = "combine"
    /\ chunk_summaries # <<>>
    /\ NeedsFusion(chunk_summaries)
    /\ \E out \in Generated(summarizer) :
          /\ calls' = Append(calls, Call("fusion", ChunkIds(chunk_summaries),
                                         TRUE, tier.final_max_tokens,
                                         tier.final_min_length))
          /\ output' = out
          /\ Return(Summary(FinalCleanup(Formatted(out, article_count))))
    /\ UNCHANGED <<cleaned_text, summarizer, article_count, tier, chunks, i,
                   chunk_summaries>>

\* lines 164, 294-295, 314-343: the fusion pass raised
FuseFailed ==
    /\ pc = "combine"
    /\ chunk_summaries # <<>>
    /\ NeedsFusion(chunk_summaries)
    /\ calls' = Append(calls, Call("fusion", ChunkIds(chunk_summaries),
                                   FALSE, tier.final_max_tokens,
                                   tier.final_min_length))
    /\ Return(FusionFailed(chunk_summaries))
    /\ UNCHANGED <<cleaned_text, summarizer, article_count, tier, chunks, i,
                   chunk_summaries, output>>

\* lines 296-297, 314-343: combined text of at most 80 words
NoFusion ==
    /\ pc = "combine"
    /\ chunk_summaries # <<>>
    /\ ~NeedsFusion(chunk_summaries)
    /\ Return(Summary(FinalCleanup(ChunkLines(chunk_summaries))))
    /\ UNCHANGED <<cleaned_text, summarizer, article_count, tier, chunks, i,
                   chunk_summaries, calls, output>>

\* lines 298-305, 314-343: no chunk summary at all, fallback answered
Fallback ==
    /\ pc = "combine"
    /\ chunk_summaries = <<>>
    /\ \E out \in Generated(summarizer) :
          /\ calls' = Append(calls, Call("fallback", <<>>, TRUE,
                                         tier.final_max_tokens,
                                         tier.final_min_length))
          /\ output' = out
          /\ Return(Summary(FinalCleanup(SentenceLines(out))))
    /\ UNCHANGED <<cleaned_text, summarizer, article_count, tier, chunks, i,
                   chunk_summaries>>

\* lines 303, 345-347: the fallback invocation raised
FallbackFailed ==
    /\ pc = "combine"
    /\ chunk_summaries = <<>>
    /\ calls' = Append(calls, Call("fallback", <<>>, FALSE,
                                   tier.final_max_tokens,
                                   tier.final_min_length))
    /\ Return(Uncaught)
    /\ UNCHANGED <<cleaned_text, summarizer, article_count, tier, chunks, i,
                   chunk_summaries, output>>

EngineNext ==
    \/ ReturnNoContent
    \/ ReturnTooShort
    \/ Direct
    \/ DirectFailed
    \/ EnterChunked
    \/ ChunkSummarized
    \/ ChunkFailed
    \/ Fuse
    \/ FuseFailed
    \/ NoFusion
    \/ Fallback
    \/ FallbackFailed

\* =====================================================================
\* The final clean-up (lines 314-341) on the characters of a summary
\* =====================================================================
\* A text is a sequence of atoms: "A" an upper-case letter, "it", "says",
\* "en" and "a" lower-case letter groups, " " and "\n" white space, "-" a
\* dash, "." a full stop, "<br>" the line-break tag.
UpperAtoms == {"A"}
LowerAtoms == {"it", "says", "en", "a"}
SpaceAtoms == {" ", "\n"}
DashAtoms == {"-"}
DotAtoms == {"."}
BR == "<br>"
NL == "\n"

Atoms == {"A", "it", "says", " ", "\n", "-", ".", "<br>"}

AtomTexts(n) == UNION {[1..k -> Atoms] : k \in 0..n}

\* len() and the number of letters of an atom
CharLen(a) ==
    CASE a = "says" -> 4
      [] a = "<br>" -> 4
      [] a = "<strong>" -> 8
      [] a = "</strong>" -> 9
      [] a = "w30" -> 30
      [] a = "w45" -> 45
      [] a \in {"it", "en"} -> 2
      [] OTHER -> 1

LetterCount(a) ==
    IF a \in UpperAtoms \cup LowerAtoms THEN CharLen(a)
    ELSE IF a = "<br>" THEN 2 ELSE 0

TextLen(t) == SumSeq([k \in 1..Len(t) |-> CharLen(t[k])])

Letters(t) == SumSeq([k \in 1..Len(t) |-> LetterCount(t[k])])

\* ---- regular expressions ----------------------------------------------
\* A pattern is a sequence of items, each a set of atoms taken once or,
\* starred, as often as possible; no item that follows a starred one can
\* start with an atom of its set, so the greedy match never backtracks.
One(set) == [set |-> set, star |-> FALSE]
Many(set) == [set |-> set, star |-> TRUE]

\* the position after the match of pat at position k of t, 0 when none
RECURSIVE MatchAt(_, _, _)
MatchAt(t, k, pat) ==
    IF pat = <<>> THEN k
    ELSE IF Head(pat).star
         THEN IF k <= Len(t) /\ t[k] \in Head(pat).set
              THEN MatchAt(t, k + 1, pat)
              ELSE MatchAt(t, k, Tail(pat))
         ELSE IF k <= Len(t) /\ t[k] \in Head(pat).set
              THEN MatchAt(t, k + 1, Tail(pat))
              ELSE 0

\* re.sub(pat, repl, t) from position k on
RECURSIVE SubFrom(_, _, _, _)
SubFrom(t, k, pat, repl) ==
    IF k > Len(t) THEN <<>>
    ELSE LET e == MatchAt(t, k, pat)
         IN  IF e > k THEN repl \o SubFrom(t, e, pat, repl)
             ELSE <<t[k]>> \o SubFrom(t, k + 1, pat, repl)

Sub(pat, repl, t) == SubFrom(t, 1, pat, repl)

\* line 323: r'enen\s*-en\s*en-ena\s*aen.*'
GarbledRun ==
    <<One({"en"}), One({"en"}), Many(SpaceAtoms), One({"-"}), One({"en"}),
      Many(SpaceAtoms), One({"en"}), One({"-"}), One({"en"}), One({"a"}),
      Many(SpaceAtoms), One({"a"}), One({"en"}),
      Many((Atoms \cup LowerAtoms) \ {NL})>>

\* line 324: r'it says\s*[\xad\-\u2013\u2014\.a\s]*'
ItSays ==
    <<One({"it"}), One({" "}), One({"says"}), Many(SpaceAtoms),
      Many(DashAtoms \cup DotAtoms \cup {"a"} \cup SpaceAtoms)>>

\* line 325: r'[\xad\-\u2013\u2014]{2,}'
DashRun == <<One(DashAtoms), One(DashAtoms), Many(DashAtoms)>>

\* line 326: r'\.{3,}'
Ellipsis == <<One(DotAtoms), One(DotAtoms), One(DotAtoms), Many(DotAtoms)>>

\* line 327: r'\s+'
SpaceRun == <<One(SpaceAtoms), Many(SpaceAtoms)>>

\* str.strip()
RECURSIVE LStrip(_)
LStrip(t) ==
    IF t # <<>> /\ Head(t) \in SpaceAtoms THEN LStrip(Tail(t)) ELSE t

RECURSIVE RStrip(_)
RStrip(t) ==
    IF t # <<>> /\ t[Len(t)] \in SpaceAtoms
    THEN RStrip(SubSeq(t, 1, Len(t) - 1)) ELSE t

Strip(t) == RStrip(LStrip(t))

\* str.split(sep)
RECURSIVE Split(_, _)
Split(t, sep) ==
    IF \A k \in 1..Len(t) : t[k] # sep THEN <<t>>
    ELSE LET k == CHOOSE m \in 1..Len(t) :
                      t[m] = sep /\ \A j \in 1..(m - 1) : t[j] # sep
         IN  <<SubSeq(t, 1, k - 1)>> \o Split(SubSeq(t, k + 1, Len(t)), sep)

\* sep.join(ls)
RECURSIVE Join(_, _)
Join(ls, sep) ==
    IF ls = <<>> THEN <<>>
    ELSE IF Len(ls) = 1 THEN ls[1]
    ELSE ls[1] \o <<sep>> \o Join(Tail(ls), sep)

Contains(t, a) == \E k \in 1..Len(t) : t[k] = a

\* lines 322-327: the clean-up of one line
CleanLine(line) ==
    LET l1 == Strip(line)
        l2 == Sub(GarbledRun, <<>>, l1)
        l3 == Sub(ItSays, <<>>, l2)
        l4 == Sub(DashRun, <<>>, l3)
        l5 == Sub(Ellipsis, <<".">>, l4)
    IN  Strip(Sub(SpaceRun, <<" ">>, l5))

\* line 330: r'^[^a-zA-Z]*$'
NoLetter(line) == Letters(line) = 0

\* line 331: r'^[a-z\s\.\-\u2013\u2014]*$'
LowerCaseOnly(line) ==
    \A k \in 1..Len(line) :
        line[k] \in LowerAtoms \cup SpaceAtoms \cup DotAtoms \cup DashAtoms

\* line 332: 'enen' in line
HasEnen(line) ==
    \E k \in 1..(Len(line) - 1) : line[k] = "en" /\ line[k + 1] = "en"

\* lines 329-333: the test a cleaned line passes to be kept
Kept(line) ==
    /\ TextLen(line) > 3
    /\ ~NoLetter(line)
    /\ ~LowerCaseOnly(line)
    /\ ~HasEnen(line)
    /\ Letters(line) > 3

\* lines 314-341
FilterText(t) ==
    LET sep == IF Contains(t, BR) THEN BR ELSE NL
        lines == Split(t, sep)
        clean == [k \in 1..Len(lines) |-> CleanLine(lines[k])]
    IN  Strip(Join(SelectSeq(clean, Kept), sep))

FilterInit ==
    /\ summary \in AtomTexts(MaxAtoms)
    /\ cleaned = <<>>

FilterIdle ==
    /\ summary = <<>>
    /\ cleaned = <<>>

\* the clean-up applied to the summary, then to its own output
ApplyFilter ==
    /\ Len(cleaned) < 2
    /\ cleaned' = Append(cleaned,
                         FilterText(IF cleaned = <<>> THEN summary
                                    ELSE cleaned[Len(cleaned)]))
    /\ UNCHANGED summary

EngineIdle ==
    /\ pc = "idle"
    /\ cleaned_text = [nwords |-> 0, article_markers |-> 0, indiatoday |-> FALSE]
    /\ summarizer = [lens |-> {}, texts |-> "one"]
    /\ article_count = 0
    /\ tier = NoTier
    /\ chunks = <<>>
    /\ i = 0
    /\ chunk_summaries = <<>>
    /\ calls = <<>>
    /\ result = NoResult
    /\ output = <<>>

\* =====================================================================
\* The report builders (generate_pdf_report, generate_docx_report)
\* =====================================================================
\* "w30" and "w45" are words of 30 and 45 characters.
ReportAtoms == {"<strong>", "</strong>", "<br>", "\n", " ", "w30", "w45"}

ReportTexts(n) == UNION {[1..k -> ReportAtoms] : k \in 0..n}

\* lines 511, 562: the three replace() calls, one after the other
StripMarkup(t) ==
    Sub(<<One({BR})>>, <<NL>>,
        Sub(<<One({"</strong>"})>>, <<>>,
            Sub(<<One({"<strong>"})>>, <<>>, t)))

\* variant: the word that did not fit is dropped
CarryOverLost(word) == <<>>

\* line 524: the line under construction restarts with the word that did
\* not fit
CarryOver(word) == word \o <<" ">>

\* lines 519-526: the words of a long line laid out in cells
RECURSIVE WrapWords(_, _)
WrapWords(words, current_line) ==
    IF words = <<>>
    THEN IF current_line # <<>> THEN <<Strip(current_line)>> ELSE <<>>
    ELSE IF TextLen(current_line \o Head(words)) < PdfLineLimit
         THEN WrapWords(Tail(words), current_line \o Head(words) \o <<" ">>)
         ELSE <<Strip(current_line)>>
              \o WrapWords(Tail(words), CarryOver(Head(words)))

\* lines 515-528: the cells written for one line
PdfCells(line) ==
    IF TextLen(line) > PdfLineLimit THEN WrapWords(Split(line, " "), <<>>)
    ELSE <<line>>

RECURSIVE FlatMap(_, _)
FlatMap(Op(_), ls) ==
    IF ls = <<>> THEN <<>> ELSE Op(Head(ls)) \o FlatMap(Op, Tail(ls))

\* lines 511-528: the cells of the PDF body
PdfBody(t) == FlatMap(PdfCells, Split(StripMarkup(t), NL))

\* lines 565-567: the paragraph added for one line
DocxParagraphs(line) ==
    IF Strip(line) # <<>> THEN <<Strip(line)>> ELSE <<>>

\* lines 562-567: the paragraphs of the DOCX body
DocxBody(t) == FlatMap(DocxParagraphs, Split(StripMarkup(t), NL))

NoReport == [format |-> "none", path |-> "none", body |-> <<>>]

ReportInit ==
    /\ summary_text \in ReportTexts(MaxPieces)
    /\ report = NoReport

ReportIdle ==
    /\ summary_text = <<>>
    /\ report = NoReport

\* lines 497-531: the PDF written
BuildPdf ==
    /\ report = NoReport
    /\ report' = [format |-> "pdf", path |-> "downloads",
                  body |-> PdfBody(summary_text)]
    /\ UNCHANGED summary_text

\* lines 555-570: the DOCX written
BuildDocx ==
    /\ report = NoReport
    /\ report' = [format |-> "docx", path |-> "downloads",
                  body |-> DocxBody(summary_text)]
    /\ UNCHANGED summary_text

\* lines 533-535, 572-574: the document writer raised, None is returned
BuildFailed ==
    /\ report = NoReport
    /\ \E f \in {"pdf", "docx"} :
          report' = [format |-> f, path |-> "None", body |-> <<>>]
    /\ UNCHANGED summary_text

ReportNext ==
    \/ BuildPdf
    \/ BuildDocx
    \/ BuildFailed

\* =====================================================================
\* The file upload request (api.py: PDF_result, process_summary_request,
\* process_file)
\* =====================================================================
\* An uploaded file: its extension, its size in bytes, whether its bytes
\* start with the signature of its extension (%PDF, PK), whether the
\* container parser (PyPDF2, python-docx) reads it, and the text in it.
NoFile == [ext |-> "", size |-> 0, magic |-> FALSE, parses |-> FALSE,
           text |-> [nwords |-> 0, nchars |-> 0]]

FileTexts ==
    {[nwords |-> 0, nchars |-> 0], [nwords |-> 5, nchars |-> 29],
     [nwords |-> 40, nchars |-> 240], [nwords |-> 900, nchars |-> 5400]}

Uploads ==
    [ext : {"txt", "pdf", "docx", "doc", "exe"}, size : {0, 5, 4096},
     magic : BOOLEAN, parses : BOOLEAN, text : FileTexts]

Supported == {"txt", "pdf", "docx", "doc"}

Extracted(text) == [ok |-> TRUE, text |-> text, error |-> ""]

\* every exception of process_file leaves it as a ValueError (lines 343-351)
ValueError(msg) == [ok |-> FALSE, text |-> [nwords |-> 0, nchars |-> 0],
                    error |-> msg]

\* variant: the signature test left out
SignatureOkAlways(file) == TRUE

\* lines 238, 282: the bytes start with %PDF (.pdf) or PK (.docx)
SignatureOk(file) == file.magic

\* lines 209-232
ProcessTxt(file) ==
    IF file.text.nchars = 0
    THEN ValueError("Text file appears to be empty after processing")
    ELSE Extracted(file.text)

\* lines 234-276, 278-316
ProcessContainer(file) ==
    IF ~SignatureOk(file) THEN ValueError("File is not a valid container")
    ELSE IF ~file.parses THEN ValueError("corrupted")
    ELSE IF file.text.nchars = 0 THEN ValueError("no extractable text")
    ELSE Extracted(file.text)

\* lines 318-338
ProcessDoc(file) ==
    IF file.text.nchars < MinDocChars
    THEN ValueError("Unable to process .doc file")
    ELSE Extracted(file.text)

\* lines 178-351
ProcessFile(file) ==
    IF file.size = 0 THEN ValueError("File is empty")
    ELSE IF file.size < MinFileSize THEN ValueError("File is too small")
    ELSE IF file.ext = "txt" THEN ProcessTxt(file)
    ELSE IF file.ext \in {"pdf", "docx"} THEN ProcessContainer(file)
    ELSE IF file.ext = "doc" THEN ProcessDoc(file)
    ELSE ValueError("Unsupported file type")

\* what generate_bert_summary may return for a text, and whether it
\* invokes the summarizer on the way (lines 84-94, 345-347)
EngineOutcomes(text) ==
    IF IsEmptyInput(text) THEN {[status |-> "NoContent", invoked |-> FALSE]}
    ELSE IF IsTooShort(text) THEN {[status |-> "TooShort", invoked |-> FALSE]}
    ELSE {[status |-> "Summary", invoked |-> TRUE],
          [status |-> "Error", invoked |-> TRUE]}

NoResponse == [code |-> 0, success |-> FALSE, page |-> "none", summary |-> "none"]

\* lines 531-532 with handle_error (lines 37-105)
ErrorPage(code) ==
    [code |-> code, success |-> FALSE, page |-> "error", summary |-> "none"]

\* line 534
ResultPage(status) ==
    [code |-> 200, success |-> TRUE, page |-> "PDF_result.html",
     summary |-> status]

UploadInit ==
    /\ rq = "received"
    /\ uploaded_file \in Uploads \cup {NoFile}
    /\ file_content = [nwords |-> 0, nchars |-> 0]
    /\ wordcloud \in {"absent", "stale"}
    /\ steps = <<>>
    /\ response = NoResponse

UploadIdle ==
    /\ rq = "idle"
    /\ uploaded_file = NoFile
    /\ file_content = [nwords |-> 0, nchars |-> 0]
    /\ wordcloud = "absent"
    /\ steps = <<>>
    /\ response = NoResponse

\* line 519, lines 368-387: the artifacts of the previous run removed,
\* or the removal failed and only logged
RemoveFiles ==
    /\ rq = "received"
    /\ \E removed \in BOOLEAN :
          wordcloud' = IF removed THEN "absent" ELSE wordcloud
    /\ steps' = Append(steps, "remove_files")
    /\ rq' = "extract"
    /\ UNCHANGED <<uploaded_file, file_content, response>>

\* lines 120-124, 529-532: no file, or a file without a name
RejectMissing ==
    /\ rq = "extract"
    /\ uploaded_file = NoFile
    /\ response' = ErrorPage(400)
    /\ rq' = "responded"
    /\ UNCHANGED <<uploaded_file, file_content, wordcloud, steps>>

\* lines 131-132: process_file returned the text
Extract ==
    /\ rq = "extract"
    /\ uploaded_file # NoFile
    /\ ProcessFile(uploaded_file).ok
    /\ file_content' = ProcessFile(uploaded_file).text
    /\ steps' = Append(steps, "process_file")
    /\ rq' = "clean"
    /\ UNCHANGED <<uploaded_file, wordcloud, response>>

\* lines 140-143, 531-532: process_file raised
ExtractFailed ==
    /\ rq = "extract"
    /\ uploaded_file # NoFile
    /\ ~ProcessFile(uploaded_file).ok
    /\ steps' = Append(steps, "process_file")
    /\ response' = ErrorPage(400)
    /\ rq' = "responded"
    /\ UNCHANGED <<uploaded_file, file_content, wordcloud>>

\* variant: the failure of the rendering raised to the caller
CleanedOrRaised(text, rendered) == [ok |-> rendered, text |-> text]

\* service.py lines 24-71: the cleaned text is returned whether the word
\* cloud was rendered or the failure was logged (lines 68-69).  nwords and
\* nchars count what the cleaning of lines 45-56 keeps.
Cleaned(text, rendered) == [ok |-> TRUE, text |-> text]

\* the trace of one call of clean_text_and_generate_wordcloud
CleanSteps(rendered) ==
    IF rendered THEN <<"clean_text_and_generate_wordcloud">>
    ELSE <<"clean_text_and_generate_wordcloud", "wordcloud_error_logged">>

\* line 134, service.py lines 24-71: the text normalized and the word
\* cloud written, or the rendering failed and only logged; an exception
\* of the call would end the request at lines 144-147
Normalize ==
    /\ rq = "clean"
    /\ \E rendered \in BOOLEAN :
          /\ wordcloud' = IF rendered THEN "fresh" ELSE wordcloud
          /\ steps' = steps \o CleanSteps(rendered)
          /\ IF Cleaned(file_content, rendered).ok
             THEN rq' = "summarize" /\ UNCHANGED response
             ELSE rq' = "responded" /\ response' = ErrorPage(400)
    /\ UNCHANGED <<uploaded_file, file_content>>

\* lines 135-138, 534: the summary generated and the result page rendered
Summarize ==
    /\ rq = "summarize"
    /\ \E o \in EngineOutcomes(Cleaned(file_content, TRUE).text) :
          /\ steps' = IF o.invoked
                      THEN steps \o <<"generate_bert_summary", "summarizer">>
                      ELSE Append(steps, "generate_bert_summary")
          /\ response' = ResultPage(o.status)
    /\ rq' = "responded"
    /\ UNCHANGED <<uploaded_file, file_content, wordcloud>>

UploadNext ==
    \/ RemoveFiles
    \/ RejectMissing
    \/ Extract
    \/ ExtractFailed
    \/ Normalize
    \/ Summarize

\* =====================================================================
\* The URL request (api.py: RAW_result, process_summary_request;
\* service.py: summarize_url, fetch_article)
\* =====================================================================
\* A submitted URL: blank or not, how requests.get() and raise_for_status()
\* end, the text the extraction strategy collects (primary), the visible
\* text of the whole page (visible), and whether the extracted text begins
\* with the word "Error".
NoUrl == [blank |-> TRUE, fetch |-> "none",
          primary |-> [nwords |-> 0, nchars |-> 0],
          visible |-> [nwords |-> 0, nchars |-> 0], lead_error |-> FALSE]

FetchEnds == {"ok", "timeout", "network", "status"}

Urls ==
    {u \in [blank : {FALSE}, fetch : FetchEnds, primary : FileTexts,
            visible : FileTexts, lead_error : BOOLEAN] :
        /\ u.visible.nchars = 0 => u.primary.nchars = 0
        /\ u.fetch # "ok" =>
              u.primary.nchars = 0 /\ u.visible.nchars = 0 /\ ~u.lead_error}

\* a string returned by fetch_article: error is "it starts with 'Error'"
Article(text, lead_error) ==
    [error |-> lead_error /\ text.nchars > 0, reason |-> "", text |-> text]

\* lines 447-449: f"Error fetching content: {e}"
FetchError(reason) ==
    [error |-> TRUE, reason |-> reason, text |-> [nwords |-> 0, nchars |-> 0]]

\* lines 363-449
FetchArticle(u) ==
    IF u.fetch # "ok" THEN FetchError(u.fetch)
    ELSE IF u.primary.nchars < FallbackChars
         THEN Article(u.visible, u.lead_error)
         ELSE Article(u.primary, u.lead_error)

\* variant: the test of the returned string left out
StartsWithErrorNever(article) == FALSE

\* line 464: article_text.startswith("Error")
StartsWithError(article) == article.error

NoOutcome == [status |-> "none", reason |-> ""]

\* line 465: the string of fetch_article returned as it is
Returned(article) ==
    IF article.reason # ""
    THEN [status |-> "FetchError", reason |-> article.reason]
    ELSE [status |-> "PageText", reason |-> ""]

\* lines 156-160: every string but "Invalid URL" is a success
UrlSuccess(o) == o.status # "Invalid URL"

\* line 565
RawResultPage(status) ==
    [code |-> 200, success |-> TRUE, page |-> "RAW_result.html",
     summary |-> status]

UrlInit ==
    /\ rq = "raw_received"
    /\ url \in Urls \cup {NoUrl}
    /\ outcome = NoOutcome
    /\ uploaded_file = NoFile
    /\ file_content = [nwords |-> 0, nchars |-> 0]
    /\ wordcloud \in {"absent", "stale"}
    /\ steps = <<>>
    /\ response = NoResponse

UrlIdle ==
    /\ url = NoUrl
    /\ outcome = NoOutcome

\* line 556, lines 368-387
RawRemoveFiles ==
    /\ rq = "raw_received"
    /\ \E removed \in BOOLEAN :
          wordcloud' = IF removed THEN "absent" ELSE wordcloud
    /\ steps' = Append(steps, "remove_files")
    /\ rq' = "fetch"
    /\ UNCHANGED <<uploaded_file, file_content, response, urlVars>>

\* lines 150-151, 562-563: no URL, or a blank one
RejectBlank ==
    /\ rq = "fetch"
    /\ url.blank
    /\ response' = ErrorPage(400)
    /\ rq' = "responded"
    /\ UNCHANGED <<uploaded_file, file_content, wordcloud, steps, urlVars>>

\* service.py lines 462-465, api.py lines 154-160, 565: the string of
\* fetch_article starts with "Error" and is returned at once
FetchRejected ==
    /\ rq = "fetch"
    /\ ~url.blank
    /\ StartsWithError(FetchArticle(url))
    /\ steps' = Append(steps, "fetch_article")
    /\ outcome' = Returned(FetchArticle(url))
    /\ response' =
          IF UrlSuccess(Returned(FetchArticle(url)))
          THEN RawResultPage(Returned(FetchArticle(url)).status)
          ELSE ErrorPage(400)
    /\ rq' = "responded"
    /\ UNCHANGED <<uploaded_file, file_content, wordcloud, url>>

\* service.py lines 462-464: the string of fetch_article is taken as text
Fetched ==
    /\ rq = "fetch"
    /\ ~url.blank
    /\ ~StartsWithError(FetchArticle(url))
    /\ steps' = Append(steps, "fetch_article")
    /\ file_content' = FetchArticle(url).text
    /\ rq' = "raw_clean"
    /\ UNCHANGED <<uploaded_file, wordcloud, response, urlVars>>

\* service.py lines 475-477: f"Error processing URL: {e}"
UrlError == [status |-> "UrlError", reason |-> ""]

\* service.py line 467 (lines 24-71); an exception of the call would end
\* summarize_url at lines 475-477
UrlNormalize ==
    /\ rq = "raw_clean"
    /\ \E rendered \in BOOLEAN :
          /\ wordcloud' = IF rendered THEN "fresh" ELSE wordcloud
          /\ steps' = steps \o CleanSteps(rendered)
          /\ IF Cleaned(file_content, rendered).ok
             THEN rq' = "raw_summarize" /\ UNCHANGED <<response, outcome>>
             ELSE /\ rq' = "responded"
                  /\ outcome' = UrlError
                  /\ response' = RawResultPage(UrlError.status)
    /\ UNCHANGED <<uploaded_file, file_content, url>>

\* service.py lines 469-474, api.py lines 154-160, 565
UrlSummarize ==
    /\ rq = "raw_summarize"
    /\ \E o \in EngineOutcomes(Cleaned(file_content, TRUE).text) :
          /\ steps' = IF o.invoked
                      THEN steps \o <<"generate_bert_summary", "summarizer">>
                      ELSE Append(steps, "generate_bert_summary")
          /\ outcome' = [status |-> o.status, reason |-> ""]
          /\ response' =
                IF UrlSuccess([status |-> o.status, reason |-> ""])
                THEN RawResultPage(o.status)
                ELSE ErrorPage(400)
    /\ rq' = "responded"
    /\ UNCHANGED <<uploaded_file, file_content, wordcloud, url>>

UrlNext ==
    \/ RawRemoveFiles
    \/ RejectBlank
    \/ FetchRejected
    \/ Fetched
    \/ UrlNormalize
    \/ UrlSummarize

\* =====================================================================
\* The server: pipeline runs and downloads sharing the artifact files
\* (api.py: PDF_result, RAW_result, download_file, remove_files;
\* service.py: clean_text_and_generate_wordcloud, generate_*_report)
\* =====================================================================
\* A file is named by its directory (relative to the repository root), the
\* stem of its name and its extension.
Path(dir, stem, ext) == [dir |-> dir, stem |-> stem, ext |-> ext]

NoPath == Path("", "", "")

\* a relative directory of the code, resolved against the working directory
Resolve(dir) == IF cwd = "root" THEN dir ELSE "app/" \o dir

\* config.py line 5, service.py lines 59, 66: savefig('static/img/wordcloud/')
\* writes the file '.png' of that directory
WordcloudFile == Path(Resolve("static/img/wordcloud"), "", "png")

\* service.py lines 490-495, 548-553: the name holds the time in seconds
ReportFile(fmt) == Path(Resolve("downloads"), ToString(clock), fmt)

\* api.py lines 374-378, 381-385: the directories remove_files empties, taken
\* from the directory of api.py, and the extensions it removes in each
SweptBy(path) ==
    \/ path.dir = "app/static/img/wordcloud" /\ path.ext \in {"png", "jpg", "jpeg"}
    \/ path.dir = "app/static/download" /\ path.ext \in {"docx", "pdf"}

\* api.py lines 368-387
Swept(files) == {f \in files : ~SweptBy(f.path)}

\* a file written (again) at a path
Written(files, path, owner, run) ==
    {f \in files : f.path # path}
        \cup {[path |-> path, owner |-> owner, run |-> run]}

Owners(files, path) == {f.owner : f \in {g \in files : g.path = path}}

Requests == 1..MaxRequests

IdleRequest ==
    [kind |-> "none", fmt |-> "", pc |-> "idle", run |-> 0, path |-> NoPath,
     rendered |-> FALSE, cloud |-> "none", served |-> 0]

InFlight(r) == reqs[r].pc \notin {"idle", "done"}

\* variant: a second request admitted while one is in flight
AdmittedAlways(r) == TRUE

\* run.py lines 31-37 (threaded=True), gunicorn_config.py lines 5-6 (one
\* sync worker): whether request r is taken up now
Admitted(r) == threaded \/ \A q \in Requests : ~InFlight(q)

\* the word cloud as request r finds it
CloudOf(files, r) ==
    IF Owners(files, WordcloudFile) = {} THEN "absent"
    ELSE IF Owners(files, WordcloudFile) = {r} THEN "own"
    ELSE "other"

ServerInit ==
    /\ cwd \in {"root", "app"}
    /\ threaded \in BOOLEAN
    /\ clock = 0
    /\ runs = 0
    /\ disk = {}
    /\ reqs = [r \in Requests |-> IdleRequest]

ServerIdle ==
    /\ cwd = "root"
    /\ threaded = FALSE
    /\ clock = 0
    /\ runs = 0
    /\ disk = {}
    /\ reqs = [r \in Requests |-> IdleRequest]

\* requests arrive in the order of their numbers
NextToArrive(r) ==
    /\ reqs[r].pc = "idle"
    /\ \A q \in Requests : q < r => reqs[q].pc # "idle"
    /\ Admitted(r)

\* api.py lines 511-519, 548-556: a pipeline request (file or URL) arrives
StartRun(r) ==
    /\ NextToArrive(r)
    /\ runs' = runs + 1
    /\ reqs' = [reqs EXCEPT ![r] =
                  [IdleRequest EXCEPT !.kind = "run", !.pc = "cleanup",
                                      !.run = runs + 1]]
    /\ UNCHANGED <<cwd, threaded, clock, disk>>

\* api.py lines 519, 556: remove_files()
Cleanup(r) ==
    /\ reqs[r].pc = "cleanup"
    /\ disk' = Swept(disk)
    /\ reqs' = [reqs EXCEPT ![r].pc = "extract"]
    /\ UNCHANGED <<cwd, threaded, clock, runs>>

\* api.py line 131, service.py line 462: the text extracted
ExtractText(r) ==
    /\ reqs[r].pc = "extract"
    /\ reqs' = [reqs EXCEPT ![r].pc = "normalize"]
    /\ UNCHANGED <<cwd, threaded, clock, runs, disk>>

\* service.py lines 58-69: the word cloud saved, or the failure logged
WriteWordcloud(r) ==
    /\ reqs[r].pc = "normalize"
    /\ \E rendered \in BOOLEAN :
          /\ disk' = IF rendered
                     THEN Written(disk, WordcloudFile, r, reqs[r].run)
                     ELSE disk
          /\ reqs' = [reqs EXCEPT ![r].pc = "summarize",
                                  ![r].rendered = rendered]
    /\ UNCHANGED <<cwd, threaded, clock, runs>>

\* api.py lines 135-138, 534, 565: the summary made and the page answered
FinishRun(r) ==
    /\ reqs[r].pc = "summarize"
    /\ reqs' = [reqs EXCEPT ![r].pc = "done",
                            ![r].cloud = CloudOf(disk, r)]
    /\ UNCHANGED <<cwd, threaded, clock, runs, disk>>

\* api.py lines 569-586: a download request arrives
StartDownload(r) ==
    /\ NextToArrive(r)
    /\ \E fmt \in {"pdf", "docx"} :
          reqs' = [reqs EXCEPT ![r] =
                    [IdleRequest EXCEPT !.kind = "download", !.fmt = fmt,
                                        !.pc = "name", !.run = runs]]
    /\ UNCHANGED <<cwd, threaded, clock, runs, disk>>

\* service.py lines 490-495, 548-553: the path of the report chosen
NameReport(r) ==
    /\ reqs[r].pc = "name"
    /\ reqs' = [reqs EXCEPT ![r].pc = "write",
                            ![r].path = ReportFile(reqs[r].fmt)]
    /\ UNCHANGED <<cwd, threaded, clock, runs, disk>>

\* service.py lines 531, 569: the report written
WriteReport(r) ==
    /\ reqs[r].pc = "write"
    /\ disk' = Written(disk, reqs[r].path, r, reqs[r].run)
    /\ reqs' = [reqs EXCEPT ![r].pc = "send"]
    /\ UNCHANGED <<cwd, threaded, clock, runs>>

\* api.py line 599: send_file(file_path), the file as it is now
SendFile(r) ==
    /\ reqs[r].pc = "send"
    /\ \E o \in Owners(disk, reqs[r].path) :
          reqs' = [reqs EXCEPT ![r].pc = "done", ![r].served = o]
    /\ UNCHANGED <<cwd, threaded, clock, runs, disk>>

\* a second passes
Tick ==
    /\ clock < MaxClock
    /\ clock' = clock + 1
    /\ UNCHANGED <<cwd, threaded, runs, disk, reqs>>

ServerNext ==
    \/ \E r \in Requests : StartRun(r)
    \/ \E r \in Requests : Cleanup(r)
    \/ \E r \in Requests : ExtractText(r)
    \/ \E r \in Requests : WriteWordcloud(r)
    \/ \E r \in Requests : FinishRun(r)
    \/ \E r \in Requests : StartDownload(r)
    \/ \E r \in Requests : NameReport(r)
    \/ \E r \in Requests : WriteReport(r)
    \/ \E r \in Requests : SendFile(r)
    \/ Tick

\* =====================================================================
\* The density score of a text with its layout (service.py lines 45-56,
\* 87-112)
\* =====================================================================
\* A generation text as clean_text_and_generate_wordcloud returns it, line
\* and paragraph breaks in place: paragraphs counts the pieces between blank
\* lines that are longer than 30 characters, long_lines the lines longer
\* than 50 characters.
Layouts ==
    [nwords : {801, 1000}, article_markers : {0, 9}, indiatoday : BOOLEAN,
     paragraphs : {1, 6, 12}, long_lines : {1, 12, 24}]

\* line 87: re.sub(r'\s+', ' ', ...) turns every line break into a space;
\* what is left is one paragraph on one line
Flattened(text) == [text EXCEPT !.paragraphs = 1, !.long_lines = 1]

\* lines 87-112: the score of a text of more than 800 words
DensityOf(text) == ArticleCount(Flattened(text))

DensityInit ==
    /\ generation_texts \in
          {p \in Layouts \X Layouts : p[1].nwords = p[2].nwords}
    /\ density = <<>>

DensityIdle ==
    /\ generation_texts = <<>>
    /\ density = <<>>

\* lines 87-112, for each of the two texts
EstimateDensity ==
    /\ density = <<>>
    /\ generation_texts # <<>>
    /\ density' = <<DensityOf(generation_texts[1]),
                    DensityOf(generation_texts[2])>>
    /\ UNCHANGED generation_texts

\* =====================================================================
\* The topic buckets (service.py lines 194-221)
\* =====================================================================
\* 'cricket', 'cup' and 'match' are sports keywords (line 195)
KeywordSets ==
    {kw \in SUBSET (Topics \cup {"core"}) : "core" \in kw => "sports" \in kw}

UsableSentences == {Sent(kw, TRUE) : kw \in KeywordSets}

BucketNames == {BucketOrder[k] : k \in 1..Len(BucketOrder)}

\* lines 200-204
NoBuckets == [b \in BucketNames |-> <<>>]

BucketsInit ==
    /\ sentences \in UNION {[1..k -> UsableSentences] : k \in 1..MaxSorted}
    /\ buckets = NoBuckets

BucketsIdle ==
    /\ sentences = <<>>
    /\ buckets = NoBuckets

\* lines 206-221: every sentence appended to the list of its bucket
Classify ==
    /\ sentences # <<>>
    /\ buckets = NoBuckets
    /\ buckets' = [b \in BucketNames |-> InBucket(sentences, b)]
    /\ UNCHANGED sentences

\* =====================================================================
\* download_file (api.py lines 569-602): one download request
\* =====================================================================
\* the route parameter: the two formats, another name, and 'PDF', which
\* the case-sensitive test of line 585 does not accept
Formats == {"docx", "pdf", "txt", "PDF"}

\* request.form: the field 'summary' may be missing or empty
Forms ==
    {[present |-> FALSE, summary |-> <<>>]}
        \cup {[present |-> TRUE, summary |-> t] : t \in ReportTexts(MaxPieces)}

NoAnswer == [kind |-> "none", code |-> 0, path |-> "none"]

\* handle_error (lines 37-105): the error page and the status code
ErrorAnswer(code) == [kind |-> "error", code |-> code, path |-> "none"]

\* line 599: send_file(file_path, as_attachment=True, ...)
Attachment(path) == [kind |-> "attachment", code |-> 200, path |-> path]

\* line 581: if not summary
HasSummary(f) == f.present /\ f.summary # <<>>

\* variant: the test of line 585 left out
ValidFormatAny(f) == TRUE

\* line 585: format_type in ['docx', 'pdf']
ValidFormat(f) == f \in {"docx", "pdf"}

\* lines 594-597: docx goes to generate_docx, everything else to
\* generate_pdf
BuilderOf(f) == IF f = "docx" THEN "generate_docx" ELSE "generate_pdf"

DownloadInit ==
    /\ format_type \in Formats
    /\ form \in Forms
    /\ built = <<>>
    /\ answer = NoAnswer

DownloadIdle ==
    /\ format_type = ""
    /\ form = [present |-> FALSE, summary |-> <<>>]
    /\ built = <<>>
    /\ answer = NoAnswer

\* lines 580-582
DownloadNoSummary ==
    /\ answer = NoAnswer
    /\ ~HasSummary(form)
    /\ answer' = ErrorAnswer(400)
    /\ UNCHANGED <<format_type, form, built>>

\* lines 584-586
DownloadBadFormat ==
    /\ answer = NoAnswer
    /\ HasSummary(form)
    /\ ~ValidFormat(format_type)
    /\ answer' = ErrorAnswer(400)
    /\ UNCHANGED <<format_type, form, built>>

\* lines 588-599: the builder wrote the report and the file is sent
DownloadSent ==
    /\ answer = NoAnswer
    /\ HasSummary(form)
    /\ ValidFormat(format_type)
    /\ built' = Append(built, [builder |-> BuilderOf(format_type),
                               path |-> "downloads"])
    /\ answer' = Attachment("downloads")
    /\ UNCHANGED <<format_type, form>>

\* service.py lines 533-535, 572-574: the builder returned None; line 599:
\* send_file(None) raises, lines 601-602 answer with the error page
DownloadBuilderFailed ==
    /\ answer = NoAnswer
    /\ HasSummary(form)
    /\ ValidFormat(format_type)
    /\ built' = Append(built, [builder |-> BuilderOf(format_type),
                               path |-> "None"])
    /\ answer' = ErrorAnswer(500)
    /\ UNCHANGED <<format_type, form>>

\* lines 599-602: the report was written and send_file raised
DownloadSendFailed ==
    /\ answer = NoAnswer
    /\ HasSummary(form)
    /\ ValidFormat(format_type)
    /\ built' = Append(built, [builder |-> BuilderOf(format_type),
                               path |-> "downloads"])
    /\ answer' = ErrorAnswer(500)
    /\ UNCHANGED <<format_type, form>>

DownloadNext ==
    \/ DownloadNoSummary
    \/ DownloadBadFormat
    \/ DownloadSent
    \/ DownloadBuilderFailed
    \/ DownloadSendFailed

\* =====================================================================
\* Specifications
\* =====================================================================
\* generate_bert_summary
Init ==
    EngineInit /\ FilterIdle /\ ReportIdle /\ UploadIdle /\ UrlIdle /\ ServerIdle
        /\ DensityIdle /\ BucketsIdle /\ DownloadIdle

Next ==
    EngineNext
        /\ UNCHANGED <<filterVars, reportVars, uploadVars, urlVars, serverVars,
                     densityVars, bucketVars, downloadVars>>

Spec == Init /\ [][Next]_vars

\* the final clean-up alone
FilterSpecInit ==
    FilterInit /\ EngineIdle /\ ReportIdle /\ UploadIdle /\ UrlIdle /\ ServerIdle
        /\ DensityIdle /\ BucketsIdle /\ DownloadIdle

FilterNext ==
    ApplyFilter
        /\ UNCHANGED <<engineVars, reportVars, uploadVars, urlVars, serverVars,
                     densityVars, bucketVars, downloadVars>>

SpecFilter == FilterSpecInit /\ [][FilterNext]_vars

\* the report builders alone
ReportSpecInit ==
    ReportInit /\ EngineIdle /\ FilterIdle /\ UploadIdle /\ UrlIdle /\ ServerIdle
        /\ DensityIdle /\ BucketsIdle /\ DownloadIdle

ReportSpecNext ==
    ReportNext
        /\ UNCHANGED <<engineVars, filterVars, uploadVars, urlVars, serverVars,
                     densityVars, bucketVars, downloadVars>>

SpecReport == ReportSpecInit /\ [][ReportSpecNext]_vars

\* one file upload
UploadSpecInit ==
    UploadInit /\ EngineIdle /\ FilterIdle /\ ReportIdle /\ UrlIdle /\ ServerIdle
        /\ DensityIdle /\ BucketsIdle /\ DownloadIdle

UploadSpecNext ==
    UploadNext
        /\ UNCHANGED <<engineVars, filterVars, reportVars, urlVars, serverVars,
                     densityVars, bucketVars, downloadVars>>

SpecUpload == UploadSpecInit /\ [][UploadSpecNext]_vars

\* one URL submission
UrlSpecInit == UrlInit /\ EngineIdle /\ FilterIdle /\ ReportIdle /\ ServerIdle
        /\ DensityIdle /\ BucketsIdle /\ DownloadIdle

UrlSpecNext ==
    UrlNext /\ UNCHANGED <<engineVars, filterVars, reportVars, serverVars,
                     densityVars, bucketVars, downloadVars>>

SpecUrl == UrlSpecInit /\ [][UrlSpecNext]_vars

\* the server and its artifact files
ServerSpecInit ==
    ServerInit /\ EngineIdle /\ FilterIdle /\ ReportIdle /\ UploadIdle /\ UrlIdle
        /\ DensityIdle /\ BucketsIdle /\ DownloadIdle

ServerSpecNext ==
    ServerNext
        /\ UNCHANGED <<engineVars, filterVars, reportVars, uploadVars, urlVars,
                     densityVars, bucketVars, downloadVars>>

SpecServer == ServerSpecInit /\ [][ServerSpecNext]_vars

\* the density score alone
DensitySpecInit ==
    DensityInit /\ EngineIdle /\ FilterIdle /\ ReportIdle /\ UploadIdle /\ UrlIdle
        /\ ServerIdle /\ BucketsIdle /\ DownloadIdle

DensitySpecNext ==
    EstimateDensity
        /\ UNCHANGED <<engineVars, filterVars, reportVars, uploadVars, urlVars,
                     serverVars, bucketVars, downloadVars>>

SpecDensity == DensitySpecInit /\ [][DensitySpecNext]_vars

\* the topic buckets alone
BucketsSpecInit ==
    BucketsInit /\ EngineIdle /\ FilterIdle /\ ReportIdle /\ UploadIdle /\ UrlIdle
        /\ ServerIdle /\ DensityIdle /\ DownloadIdle

BucketsSpecNext ==
    Classify
        /\ UNCHANGED <<engineVars, filterVars, reportVars, uploadVars, urlVars,
                     serverVars, densityVars, downloadVars>>

SpecBuckets == BucketsSpecInit /\ [][BucketsSpecNext]_vars

\* one download request
DownloadSpecInit ==
    DownloadInit /\ EngineIdle /\ FilterIdle /\ ReportIdle /\ UploadIdle /\ UrlIdle
        /\ ServerIdle /\ DensityIdle /\ BucketsIdle

DownloadSpecNext ==
    DownloadNext
        /\ UNCHANGED <<engineVars, filterVars, reportVars, uploadVars, urlVars,
                     serverVars, densityVars, bucketVars>>

SpecDownload == DownloadSpecInit /\ [][DownloadSpecNext]_vars


\* =====================================================================
\* Properties of the engine
\* =====================================================================
ChunkCalls == SelectSeq(calls, LAMBDA c : c.kind = "chunk")

OkChunkIds ==
    LET ok == SelectSeq(ChunkCalls, LAMBDA c : c.ok)
    IN  [k \in 1..Len(ok) |-> ok[k].arg[1]]

FusionRaised == \E k \in 1..Len(calls) : calls[k].kind = "fusion" /\ ~calls[k].ok

WordsOf(chunk) == chunk.lo..(chunk.hi - 1)

\* C1: an input of fewer than 30 words (the empty input included) ends in
\* the insufficient-content outcome, and the summarizer is never invoked
\* for it.
C1_ShortInputNotSummarized ==
    cleaned_text.nwords < 30 =>
        /\ calls = <<>>
        /\ pc = "done" => result.status \in {"NoContent", "TooShort"}

C1_Witness ==
    /\ pc = "done"
    /\ cleaned_text.nwords = 29
    /\ result.status = "TooShort"
    /\ calls = <<>>

\* C2 as stated: every input of at most 800 words causes exactly one
\* summarizer invocation.
C2_Original ==
    (pc = "done" /\ cleaned_text.nwords <= 800) => Len(calls) = 1

\* C2 amended: an input of 30 to 800 words causes exactly one summarizer
\* invocation, the direct one, with no chunk list and no fusion pass; an
\* input of fewer than 30 words causes none; 800 words take the direct
\* path and 801 words the chunked path.
C2_DirectPathOneInvocation ==
    pc = "done" =>
        /\ (cleaned_text.nwords >= 30 /\ cleaned_text.nwords <= 800) =>
              /\ Len(calls) = 1
              /\ calls[1].kind = "direct"
              /\ chunks = <<>>
              /\ chunk_summaries = <<>>
        /\ cleaned_text.nwords < 30 => calls = <<>>
        /\ cleaned_text.nwords > 800 =>
              /\ chunks # <<>>
              /\ \A k \in 1..Len(calls) : calls[k].kind # "direct"
              /\ \E k \in 1..Len(calls) : calls[k].kind = "chunk"

C2_Witness ==
    /\ pc = "done"
    /\ cleaned_text.nwords = 800
    /\ Len(calls) = 1
    /\ calls[1].kind = "direct"
    /\ result.status = "Summary"

\* C3: for an input of more than 800 words, every two consecutive chunks
\* share exactly 50 words, the last 50 of the one being the first 50 of the
\* next, and the chunks together hold every word of the input, in order.
C3_ChunksOverlapAndCover ==
    (cleaned_text.nwords > 800 /\ pc # "start") =>
        /\ chunks # <<>>
        /\ \A k \in 1..Len(chunks) :
              /\ chunks[k].lo < chunks[k].hi
              /\ chunks[k].hi - chunks[k].lo <= 400
        /\ \A k \in 1..(Len(chunks) - 1) :
              /\ Cardinality(WordsOf(chunks[k]) \cap WordsOf(chunks[k + 1])) = 50
              /\ chunks[k + 1].lo = chunks[k].hi - 50
              /\ chunks[k + 1].hi >= chunks[k + 1].lo + 50
              /\ chunks[k].lo < chunks[k + 1].lo
        /\ UNION {WordsOf(chunks[k]) : k \in 1..Len(chunks)}
              = 0..(cleaned_text.nwords - 1)

C3_Witness ==
    /\ pc = "chunk"
    /\ cleaned_text.nwords = 1101
    /\ Len(chunks) = 4
    /\ chunks[4] = [lo |-> 1050, hi |-> 1101]

C5_FailedChunksSkipped ==
    /\ \A k \in 1..Len(ChunkCalls) : ChunkCalls[k].arg = <<k>>
    /\ ChunkIds(chunk_summaries) = OkChunkIds
    /\ (pc = "combine" \/ (pc = "done" /\ chunks # <<>>)) =>
          Len(ChunkCalls) = Len(Submitted(chunks))
    /\ \A k \in 1..Len(calls) :
          calls[k].kind = "fusion" => calls[k].arg = OkChunkIds
    /\ (pc = "done" /\ chunk_summaries # <<>>) => result.status = "Summary"

C5_Witness ==
    /\ pc = "done"
    /\ Len(ChunkCalls) = 3
    /\ ~ChunkCalls[2].ok
    /\ OkChunkIds = <<1, 3>>
    /\ calls[Len(calls)].kind = "fusion"
    /\ calls[Len(calls)].ok
    /\ calls[Len(calls)].arg = <<1, 3>>

\* C6: the tier is high from a score of 8, medium from 4 and low below,
\* and no parameter of the tier selected for a score is larger than the
\* same parameter of the tier selected for a higher score.
TierRank(t) ==
    CASE t.summary_style = "concise" -> 1
      [] t.summary_style = "structured" -> 2
      [] t.summary_style = "detailed by topics" -> 3
      [] OTHER -> 0

TierLeq(a, b) ==
    /\ TierRank(a) <= TierRank(b)
    /\ a.max_tokens_per_chunk <= b.max_tokens_per_chunk
    /\ a.min_length_per_chunk <= b.min_length_per_chunk
    /\ a.final_max_tokens <= b.final_max_tokens
    /\ a.final_min_length <= b.final_min_length

C6_TierMonotone ==
    tier # NoTier =>
        /\ TierRank(tier) =
              (IF article_count >= 8 THEN 3 ELSE IF article_count >= 4 THEN 2 ELSE 1)
        /\ \A s \in 0..MaxScore :
              /\ s <= article_count => TierLeq(TierParams(s), tier)
              /\ s >= article_count => TierLeq(tier, TierParams(s))

C6_Witness ==
    /\ pc = "chunk"
    /\ article_count = 4
    /\ tier.summary_style = "structured"
    /\ tier.final_max_tokens = 350

\* The sections of a summary: at most 5 labels, in the order sports,
\* international, crime, domestic, other; every bullet under the label of
\* its bucket; at most 3 bullets per label.
BucketRank(b) == CHOOSE k \in 1..Len(BucketOrder) : BucketOrder[k] = b

LabelAt(ls) == {k \in 1..Len(ls) : ls[k].kind = "label"}

BulletAt(ls) == {k \in 1..Len(ls) : ls[k].kind = "bullet"}

SectionsInOrder(ls) ==
    /\ Cardinality(LabelAt(ls)) <= 5
    /\ \A j, k \in LabelAt(ls) :
          j < k => BucketRank(ls[j].bucket) < BucketRank(ls[k].bucket)
    /\ \A k \in BulletAt(ls) :
          \E j \in LabelAt(ls) :
              /\ j < k
              /\ ls[j].bucket = ls[k].bucket
              /\ \A m \in (j + 1)..k : ls[m].kind = "bullet"
    /\ \A j \in LabelAt(ls) :
          Cardinality({k \in BulletAt(ls) : ls[k].bucket = ls[j].bucket}) <= 3

\* C7 as stated: every summarizable input with at least 8 markers (the
\* 500-word input with 10 markers among them) gets the high tier and a
\* sectioned output.
C7_Original ==
    (pc = "done" /\ cleaned_text.nwords >= 30
                 /\ cleaned_text.article_markers >= 8) =>
        /\ tier.summary_style = "detailed by topics"
        /\ SectionsInOrder(result.lines)

\* C7 amended: an input of more than 800 words with at least 8 markers
\* gets the high tier, and its output holds at most 5 labeled sections, in
\* the fixed bucket order, each with at most 3 bullets; an input of at
\* most 800 words takes the direct path, where no tier is selected and no
\* section is written.
C7_HighTierSections ==
    pc = "done" =>
        /\ (cleaned_text.nwords > 800 /\ cleaned_text.article_markers >= 8) =>
              /\ article_count >= 8
              /\ tier.summary_style = "detailed by topics"
              /\ SectionsInOrder(result.lines)
        /\ cleaned_text.nwords <= 800 =>
              /\ tier = NoTier
              /\ LabelAt(result.lines) = {}

C7_Witness ==
    /\ pc = "done"
    /\ cleaned_text.nwords = 801
    /\ cleaned_text.article_markers = 10
    /\ Cardinality(LabelAt(result.lines)) = 2
    /\ Cardinality(BulletAt(result.lines)) = 4
    /\ result.lines[1] = Label("sports")
    /\ result.lines[Len(result.lines)].bucket = "other"


\* C8: the final clean-up is idempotent: applied to its own output, it
\* returns that output unchanged.
C8_CleanupIdempotent ==
    Len(cleaned) = 2 => cleaned[2] = cleaned[1]


\* The words of a text: the maximal runs of atoms that are not white space.
WordsIn(t) == SelectSeq(Split(Sub(SpaceRun, <<" ">>, t), " "),
                        LAMBDA w : w # <<>>)

RECURSIVE Concat(_)
Concat(ls) == IF ls = <<>> THEN <<>> ELSE Head(ls) \o Concat(Tail(ls))

ReportWords(body) == Concat([k \in 1..Len(body) |-> WordsIn(body[k])])

\* the summary with the bold markers deleted and <br> read as a line break
Unmarked(t) ==
    LET kept == SelectSeq(t, LAMBDA a : a \notin {"<strong>", "</strong>"})
    IN  [k \in 1..Len(kept) |-> IF kept[k] = BR THEN NL ELSE kept[k]]

\* C9: the words of the body of a report that was built are the words of
\* the summary with its markup removed, each once and in the same order,
\* and no cell or paragraph holds a markup token.
C9_ReportKeepsSummary ==
    (report.format \in {"pdf", "docx"} /\ report.path # "None") =>
        /\ ReportWords(report.body) = WordsIn(Unmarked(summary_text))
        /\ \A k \in 1..Len(report.body) :
              \A a \in {"<strong>", "</strong>", BR} :
                  ~Contains(report.body[k], a)

C9_Witness ==
    /\ report.format = "pdf"
    /\ report.path # "None"
    /\ summary_text = <<"<strong>", "w45", " ", "w45">>
    /\ report.body = <<<<"w45">>, <<"w45">>>>


Ran(step) == \E k \in 1..Len(steps) : steps[k] = step

\* the extension is not supported, or the bytes do not start with the
\* signature the extension calls for
Rejectable(file) ==
    \/ file.ext \notin Supported
    \/ file.ext \in {"pdf", "docx"} /\ ~file.magic

\* C10: for a file with an unsupported extension, or a .pdf or .docx file
\* without its signature, process_file raises: no text is returned, the
\* request runs no normalization, writes no word cloud and invokes no
\* model, and it is answered with the error page.
C10_ExtractionFailsClosed ==
    (uploaded_file # NoFile /\ Rejectable(uploaded_file)) =>
        /\ file_content = [nwords |-> 0, nchars |-> 0]
        /\ ~Ran("clean_text_and_generate_wordcloud")
        /\ ~Ran("generate_bert_summary")
        /\ ~Ran("summarizer")
        /\ wordcloud # "fresh"
        /\ rq \in {"received", "extract", "responded"}
        /\ rq = "responded" =>
              /\ ~response.success
              /\ response.page = "error"
              /\ response.summary = "none"

C10_Witness ==
    /\ rq = "responded"
    /\ uploaded_file.ext = "pdf"
    /\ ~uploaded_file.magic
    /\ uploaded_file.parses
    /\ uploaded_file.size = 4096
    /\ uploaded_file.text.nwords = 40
    /\ Ran("process_file")
    /\ response = ErrorPage(400)

\* C11: when the fetch of the URL fails (timeout, network error, error
\* status), neither clean_text_and_generate_wordcloud nor
\* generate_bert_summary is called for the request, and summarize_url
\* returns the fetch error with the reason of the failure.
C11_FetchFailureHalts ==
    (~url.blank /\ url.fetch # "ok") =>
        /\ ~Ran("clean_text_and_generate_wordcloud")
        /\ ~Ran("generate_bert_summary")
        /\ ~Ran("summarizer")
        /\ wordcloud # "fresh"
        /\ rq \in {"raw_received", "fetch", "responded"}
        /\ rq = "responded" =>
              outcome = [status |-> "FetchError", reason |-> url.fetch]

C11_Witness ==
    /\ rq = "responded"
    /\ url.fetch = "timeout"
    /\ Ran("fetch_article")
    /\ outcome = [status |-> "FetchError", reason |-> "timeout"]

\* C12: a request that did not produce a summary is answered as a failure:
\* the route answers with success only when the outcome of the pipeline is
\* a summary, and with the error page when the fetch failed or the engine
\* ended in the no-content, too-short or error outcome.
C12_FailureStatusWithoutSummary ==
    (rq = "responded" /\ ~url.blank) =>
        /\ response.success <=> outcome.status = "Summary"
        /\ response.page = "error" <=> outcome.status # "Summary"

\* C13: with one request served at a time, when the cleanup at the start
\* of a pipeline run is over and extraction has not begun, no artifact file
\* (word cloud, DOCX or PDF report) written during an earlier run is left.
C13_EarlierArtifactsRemoved ==
    ~threaded =>
        \A r \in Requests :
            (reqs[r].kind = "run" /\ reqs[r].pc = "extract") =>
                \A f \in disk : f.run >= reqs[r].run

\* C14: two download requests never choose the same report path, and the
\* file a download request is served is the one that request wrote.
C14_ReportPathsUnique ==
    \A r, q \in Requests :
        (/\ r # q
         /\ reqs[r].kind = "download" /\ reqs[r].path # NoPath
         /\ reqs[q].kind = "download" /\ reqs[q].path # NoPath) =>
            /\ reqs[r].path # reqs[q].path
            /\ reqs[r].served \in {0, r}

\* C15: when the rendering of the word cloud fails, the request goes on:
\* clean_text_and_generate_wordcloud returns the cleaned text, the summary
\* is generated from it, and the request is answered with the outcome the
\* engine gives for that text, as it is when the rendering succeeds.
C15_WordcloudFailureNotFatal ==
    Ran("wordcloud_error_logged") =>
        /\ rq \in {"summarize", "responded"}
        /\ Cleaned(file_content, FALSE) = Cleaned(file_content, TRUE)
        /\ rq = "responded" =>
              /\ response.page = "PDF_result.html"
              /\ \E o \in EngineOutcomes(Cleaned(file_content, TRUE).text) :
                    /\ response.summary = o.status
                    /\ Ran("summarizer") <=> o.invoked

C15_Witness ==
    /\ rq = "responded"
    /\ Ran("wordcloud_error_logged")
    /\ wordcloud # "fresh"
    /\ response = ResultPage("Summary")

\* C16: the text handed to the normalizer and to the engine is never empty:
\* an extraction (here from a URL) that yields no word ends the request
\* before clean_text_and_generate_wordcloud and generate_bert_summary.
C16_NoEmptyTextHandedOn ==
    (Ran("clean_text_and_generate_wordcloud") \/ Ran("generate_bert_summary")) =>
        /\ file_content.nchars > 0
        /\ file_content.nwords > 0

OtherCalls == SelectSeq(calls, LAMBDA c : c.kind # "chunk")

\* C18: in the chunked path with at least one chunk summary, a combined
\* text of more than 80 words is followed by exactly one more invocation,
\* the fusion pass with the final length bounds of the tier, made on the
\* surviving chunk summaries; a combined text of 80 words or fewer is
\* followed by no invocation, and the summary is the combined text itself
\* passed through the final filter.
C18_FusionOnlyAboveThreshold ==
    (pc = "done" /\ chunk_summaries # <<>>) =>
        IF CombinedWords(chunk_summaries) > 80
        THEN /\ Len(OtherCalls) = 1
             /\ OtherCalls[1].kind = "fusion"
             /\ OtherCalls[1] = calls[Len(calls)]
             /\ OtherCalls[1].arg = ChunkIds(chunk_summaries)
             /\ OtherCalls[1].max_new_tokens = tier.final_max_tokens
             /\ OtherCalls[1].min_length = tier.final_min_length
        ELSE /\ OtherCalls = <<>>
             /\ result = Summary(FinalCleanup(ChunkLines(chunk_summaries)))

C18_Witness ==
    /\ pc = "done"
    /\ Len(chunk_summaries) = 2
    /\ CombinedWords(chunk_summaries) = 85
    /\ Len(OtherCalls) = 1
    /\ OtherCalls[1].kind = "fusion" /\ OtherCalls[1].ok
    /\ result.status = "Summary"

\* C19: the layout of the generation text reaches the density score: of two
\* texts of the same words without markers and without the aggregator
\* name, the one with many paragraphs and more than 10 long lines gets the
\* floor of 15 at least, and a higher score than the one that is a single
\* paragraph.
C19_LayoutRaisesDensity ==
    (/\ density # <<>>
     /\ generation_texts[1].article_markers = 0
     /\ generation_texts[2].article_markers = 0
     /\ ~generation_texts[1].indiatoday
     /\ ~generation_texts[2].indiatoday
     /\ generation_texts[1].paragraphs > 10
     /\ generation_texts[1].long_lines > 10
     /\ generation_texts[2].paragraphs = 1
     /\ generation_texts[2].long_lines = 1) =>
        /\ density[1] >= 15
        /\ density[1] > density[2]


\* the bucket the stated precedence gives a sentence
StatedBucket(s) ==
    IF "crime" \in s.kw THEN "crime"
    ELSE IF "sports" \in s.kw THEN "sports"
    ELSE IF "international" \in s.kw THEN "international"
    ELSE IF "domestic" \in s.kw THEN "domestic"
    ELSE "other"

\* the same, a sentence counting for sports only when it holds one of
\* 'cricket', 'cup', 'match'
GuardedBucket(s) ==
    IF "crime" \in s.kw THEN "crime"
    ELSE IF "sports" \in s.kw /\ "core" \in s.kw THEN "sports"
    ELSE IF "international" \in s.kw THEN "international"
    ELSE IF "domestic" \in s.kw THEN "domestic"
    ELSE "other"

\* C20 as stated: every sentence is in the bucket of highest precedence
\* among those with a keyword in it, a sentence with a sports keyword and
\* no crime keyword in the sports bucket.
C20_Original ==
    buckets # NoBuckets =>
        \A b \in BucketNames :
            buckets[b] = SelectSeq(sentences, LAMBDA s : StatedBucket(s) = b)

\* C20 amended: every sentence is in exactly one bucket, the first of
\* crime, sports, international, domestic with a keyword in the sentence,
\* where the sports bucket also asks for one of 'cricket', 'cup', 'match'
\* in the sentence; 'other' when none applies.
C20_OneBucketByPrecedence ==
    buckets # NoBuckets =>
        /\ \A b \in BucketNames :
              buckets[b] = SelectSeq(sentences, LAMBDA s : GuardedBucket(s) = b)
        /\ SumSeq([k \in 1..Len(BucketOrder) |-> Len(buckets[BucketOrder[k]])])
              = Len(sentences)

C20_Witness ==
    /\ buckets # NoBuckets
    /\ sentences = <<Sent({"sports", "international"}, TRUE),
                     Sent({"sports", "core", "domestic"}, TRUE)>>
    /\ buckets["international"] = <<Sent({"sports", "international"}, TRUE)>>
    /\ buckets["sports"] = <<Sent({"sports", "core", "domestic"}, TRUE)>>

\* the sentences the restructuring of lines 181-256 works on, and the
\* states in which a fusion pass of the high tier has answered
FusedSentences == StripToUpper(output)

FusedHigh ==
    /\ pc = "done"
    /\ calls # <<>>
    /\ calls[Len(calls)].kind = "fusion"
    /\ calls[Len(calls)].ok
    /\ article_count >= 8

\* the sentences under the bullets of bucket b, in the order of the lines
BulletsOf(ls, b) ==
    LET mine == SelectSeq(ls, LAMBDA l : l.kind = "bullet" /\ l.bucket = b)
    IN  [k \in 1..Len(mine) |-> mine[k].body[1]]

\* the first n sentences of ss that fall into bucket b
FirstOfBucket(ss, b, n) ==
    LET mine == SelectSeq(ss, LAMBDA s : GuardedBucket(s) = b)
    IN  SubSeq(mine, 1, IF n < Len(mine) THEN n ELSE Len(mine))

\* C21: in the high tier, after a fusion pass that answered: with at least
\* 3 usable sentences the summary is made of labeled sections only, in the
\* order sports, international, crime, domestic, other, one section for
\* every bucket that holds a sentence and none for an empty bucket, each
\* listing the first 3 sentences of its bucket (the first 2 for 'other') in
\* their original order; with fewer than 3 usable sentences the summary has
\* no label and no bullet and is the flat text.
C21_HighTierRestructuring ==
    FusedHigh =>
        LET ss == FusedSentences
            ls == result.lines
        IN  IF Len(ss) >= 3
            THEN /\ \A k \in 1..Len(ls) : ls[k].kind \in {"label", "bullet"}
                 /\ SectionsInOrder(ls)
                 /\ \A b \in BucketNames :
                       /\ (\E k \in LabelAt(ls) : ls[k].bucket = b)
                             <=> (\E k \in 1..Len(ss) : GuardedBucket(ss[k]) = b)
                       /\ BulletsOf(ls, b) =
                             FirstOfBucket(ss, b, IF b = "other" THEN 2 ELSE 3)
            ELSE /\ LabelAt(ls) = {}
                 /\ BulletAt(ls) = {}
                 /\ ls = IF ss = <<>> THEN <<>> ELSE <<TextLine(ss)>>

C21_Witness ==
    /\ FusedHigh
    /\ output = <<Sent({"crime"}, TRUE), Sent({}, TRUE), Sent({}, FALSE),
                  Sent({}, TRUE)>>
    /\ Len(result.lines) = 5
    /\ result.lines[1] = Label("crime")
    /\ result.lines[3] = Label("other")
    /\ BulletsOf(result.lines, "other") = <<Sent({}, TRUE), Sent({}, FALSE)>>

\* the lines the stated filter drops: empty, without a letter, holding the
\* garbled substring, or with fewer than 4 letters
StatedDrop(line) ==
    \/ line = <<>>
    \/ Letters(line) = 0
    \/ HasEnen(line)
    \/ Letters(line) < 4

\* the summary after a filter that drops exactly those lines
StatedFilter(t) ==
    LET sep == IF Contains(t, BR) THEN BR ELSE NL
        lines == Split(t, sep)
        clean == [k \in 1..Len(lines) |-> CleanLine(lines[k])]
    IN  Strip(Join(SelectSeq(clean, LAMBDA l : ~StatedDrop(l)), sep))

\* C22: the final filter drops a cleaned line exactly when it is empty,
\* has no letter, holds the garbled substring or has fewer than 4 letters,
\* and keeps every other line, in the original order; a line of ordinary
\* words with 4 or more letters is never dropped.
C22_OnlyStatedLinesDropped ==
    Len(cleaned) >= 1 => cleaned[1] = StatedFilter(summary)

\* the sentences of a summary, line after line
RECURSIVE SentencesOf(_)
SentencesOf(ls) ==
    IF ls = <<>> THEN <<>> ELSE Head(ls).body \o SentencesOf(Tail(ls))

\* a summary was made from the output of a direct, fusion or fallback
\* invocation
MadeFromOutput ==
    /\ pc = "done"
    /\ calls # <<>>
    /\ calls[Len(calls)].ok
    /\ calls[Len(calls)].kind \in {"direct", "fusion", "fallback"}

\* C23: the artifact clean-up of lines 167-178 is applied to the model
\* output on every path: whichever invocation the summary is made from,
\* the leading run of the output up to its first upper-case letter is not
\* part of the summary, so the summary holds no more sentences than the
\* stripped output and starts with a sentence that has an upper-case
\* letter.
C23_CleanupOnEveryPath ==
    MadeFromOutput =>
        LET got == SentencesOf(result.lines)
        IN  /\ Len(got) <= Len(StripToUpper(output))
            /\ got # <<>> => got[1].cap

\* C24: a download request is answered with the attachment or with an
\* error page and a status code. Without a summary (the field missing or
\* empty) the answer is the error page with status 400, and so it is for a
\* format other than 'docx' and 'pdf'; in both cases no report builder has
\* been called. A builder that returned no path gives the error page with
\* status 500. No request calls a builder twice.
C24_DownloadAnswers ==
    answer # NoAnswer =>
        /\ answer.kind \in {"attachment", "error"}
        /\ answer.code \in {200, 400, 500}
        /\ (~form.present \/ form.summary = <<>>) =>
              answer = ErrorAnswer(400) /\ built = <<>>
        /\ format_type \notin {"docx", "pdf"} =>
              answer = ErrorAnswer(400) /\ built = <<>>
        /\ Len(built) <= 1
        /\ (built # <<>> /\ built[1].path = "None") => answer = ErrorAnswer(500)
        /\ answer.kind = "attachment" =>
              /\ built # <<>>
              /\ answer.path = built[1].path
              /\ answer.path # "None"

C24_Witness ==
    /\ answer = ErrorAnswer(500)
    /\ format_type = "pdf"
    /\ form.summary = <<"w30", "<br>", "w45">>
    /\ built = <<[builder |-> "generate_pdf", path |-> "None"]>>

\* the words handed to the per-chunk invocations made so far
WordsSubmitted == UNION {WordsOf(chunks[ChunkCalls[k].arg[1]]) : k \in 1..Len(ChunkCalls)}

\* C25: an input of more than 800 words is cut into at least 3 chunks, of
\* which the first 3, words 0-399, 350-749 and 700-1099 as far as the
\* input reaches, are the ones submitted: there are at most 3 per-chunk
\* invocations, exactly 3 once the loop is over, each on one of the first
\* 3 chunks, and no word at position 1100 or later is part of one.
C25_FirstThreeChunksOnly ==
    (cleaned_text.nwords > 800 /\ pc # "start") =>
        /\ Len(chunks) >= 3
        /\ chunks[1] = [lo |-> 0, hi |-> 400]
        /\ chunks[2] = [lo |-> 350, hi |-> 750]
        /\ chunks[3].lo = 700
        /\ chunks[3].hi = (IF cleaned_text.nwords < 1100
                           THEN cleaned_text.nwords ELSE 1100)
        /\ Len(ChunkCalls) <= 3
        /\ pc \in {"combine", "done"} => Len(ChunkCalls) = 3
        /\ \A k \in 1..Len(ChunkCalls) : ChunkCalls[k].arg = <<k>>
        /\ \A w \in WordsSubmitted : w < 1100

C25_Witness ==
    /\ pc = "done"
    /\ cleaned_text.nwords = 1102
    /\ Len(chunks) = 4
    /\ chunks[4] = [lo |-> 1050, hi |-> 1102]
    /\ Len(ChunkCalls) = 3
    /\ WordsSubmitted = 0..1099

\* C26: one call of generate_bert_summary invokes the model at most 4
\* times: at most 3 per-chunk invocations, then at most one fusion or
\* fallback invocation, which is the last invocation of the call (the
\* direct path makes one invocation). The fallback invocation is made
\* exactly when every per-chunk invocation has failed, with the final
\* lengths of the tier; when it fails too, the call ends with the error
\* outcome.
C26_AtMostFourInvocations ==
    /\ Len(calls) <= 4
    /\ Len(ChunkCalls) <= 3
    /\ Len(calls) - Len(ChunkCalls) <= 1
    /\ \A k \in 1..Len(calls) :
          calls[k].kind # "chunk" => /\ k = Len(calls)
                                      /\ pc = "done"
    /\ \A k \in 1..Len(calls) :
          calls[k].kind = "fallback" =>
              /\ \A j \in 1..(k - 1) : calls[j].kind = "chunk" /\ ~calls[j].ok
              /\ calls[k].max_new_tokens = tier.final_max_tokens
              /\ calls[k].min_length = tier.final_min_length
              /\ ~calls[k].ok => result.status = "Error"
    /\ (pc = "done" /\ ChunkCalls # <<>>
          /\ \A j \in 1..Len(ChunkCalls) : ~ChunkCalls[j].ok) =>
              calls[Len(calls)].kind = "fallback"

C26_Witness ==
    /\ pc = "done"
    /\ Len(calls) = 4
    /\ \A j \in 1..3 : calls[j].kind = "chunk" /\ ~calls[j].ok
    /\ calls[4].kind = "fallback"
    /\ ~calls[4].ok
    /\ result.status = "Error"

\* every invocation the call made answered, and the invocation the summary
\* is made from answered with a text that is not empty
AllAnswered ==
    /\ calls # <<>>
    /\ \A k \in 1..Len(calls) : calls[k].ok
    /\ calls[Len(calls)].kind # "chunk" => output # <<>>

\* C27: a call for an input of 30 or more words that ends without error,
\* every invocation it made having answered with a text that is not empty,
\* returns a summary that is not empty, also when the model's text holds
\* lower-case words only.
C27_SummaryNotEmpty ==
    (/\ pc = "done"
     /\ cleaned_text.nwords >= 30
     /\ result.status = "Summary"
     /\ AllAnswered) => result.lines # <<>>

\* C28: summarize_url takes the extraction as failed exactly when the
\* fetch failed: a page that was fetched is normalized and summarized
\* whatever its text begins with, the word 'Error' included, and the error
\* string of a lower stage is neither summarized nor rendered as a
\* summary.
C28_FailedOnlyWhenFetchFailed ==
    (rq = "responded" /\ ~url.blank) =>
        /\ url.fetch = "ok" <=> Ran("clean_text_and_generate_wordcloud")
        /\ url.fetch = "ok" <=> Ran("generate_bert_summary")
        /\ outcome.status \in {"FetchError", "UrlError", "Error"} =>
              /\ ~response.success
              /\ response.page = "error"

====
